---- MODULE Spec2Model ----
(***************************************************************************)
(* Model of the dynamic-DNS daemon of src/main.py: the resolver            *)
(* get_external_ip, the record client get_dns_record / update_dns_record   *)
(* and the reconciliation loop run of CloudflareDNSUpdater.                *)
(*                                                                         *)
(* Python values are modelled as follows.  A str is the sequence of its    *)
(* characters (a URL is the sequence of its lexical pieces), None is the   *)
(* value None below, and the three results of update_dns_record are the    *)
(* strings "True", "False" and "None".                                     *)
(***************************************************************************)
EXTENDS Naturals, Sequences, FiniteSets, TLC

\* ------------------------------------------------------------------ bounds

\* Longest plain-text response body the lookup services send in the model.
MaxBody == 2

\* ------------------------------------------------------------ python values

None == [t |-> "none", s |-> <<>>]

Str(s) == [t |-> "str", s |-> s]

\* Python truthiness of a value that is None or a str.
Truthy(v) == v.t = "str" /\ v.s # <<>>

\* ---------------------------------------------------------------- config.py

IP_CHECK_SERVICES ==
    << <<"https://", "api.ipify.org", "?format=json">>,
       <<"https://", "ifconfig.me", "/ip">>,
       <<"https://", "api.ipify.org">>,
       <<"https://", "icanhazip.com">> >>

JSON_SERVICES == << <<"api.ipify.org", "?format=json">> >>

check_interval == 3600

retry_interval == 60

\* ------------------------------------------------------- response bodies

Whitespace == {" ", "\n"}

Digits == {"1"}

Chars == Whitespace \cup Digits

\* The plain-text bodies: every string of at most MaxBody characters.
TextBodies == UNION {[1..n -> Chars] : n \in 0..MaxBody}

\* The JSON documents a service may send, each as the text of the body.
JsonBodies ==
    { <<"{origin:'1'}">>, <<"{ip:null}">>, <<"{ip:''}">>, <<"{ip:'1'}">> }

Bodies == TextBodies \cup JsonBodies

\* What a lookup service answers: a transport failure, a non-2xx status, or
\* a 2xx status with a body.
Responses ==
    {[status |-> "error", text |-> <<>>], [status |-> "http_error", text |-> <<>>]}
    \cup {[status |-> "ok", text |-> b] : b \in Bodies}

\* What service i of IP_CHECK_SERVICES may answer.  The first service is
\* asked for JSON and may answer any body; the others are plain-text
\* services and answer text, or one JSON document in its place.
Answers(i) ==
    IF i = 1 THEN Responses
    ELSE {r \in Responses : r.text \in TextBodies \cup {<<"{ip:'1'}">>}}

\* -------------------------------------------------------- get_external_ip

IsWhitespace(c) == c \in Whitespace

\* str.strip(): the string without its leading and trailing whitespace.
RECURSIVE LStrip(_)
LStrip(s) ==
    IF s # <<>> /\ IsWhitespace(Head(s)) THEN LStrip(Tail(s)) ELSE s

RECURSIVE RStrip(_)
RStrip(s) ==
    IF s # <<>> /\ IsWhitespace(s[Len(s)])
    THEN RStrip(SubSeq(s, 1, Len(s) - 1))
    ELSE s

\* Mutant: only the leading whitespace is removed.
Strip_LeftOnly(s) == LStrip(s)

Strip(s) == RStrip(LStrip(s))

\* Python's `sub in s` on strings: sub occurs in s as a contiguous piece.
Contains(s, sub) ==
    \E i \in 0..(Len(s) - Len(sub)) : SubSeq(s, i + 1, i + Len(sub)) = sub

\* any(json_service in service for json_service in config.JSON_SERVICES)
IsJsonService(service) ==
    \E k \in 1..Len(JSON_SERVICES) : Contains(service, JSON_SERVICES[k])

Fail == [ok |-> FALSE, ip |-> None]

Ok(v) == [ok |-> TRUE, ip |-> v]

\* response.json(): the object the body denotes, each field with its value;
\* NotJson where json() raises (the body is no JSON text) and for the JSON
\* texts that denote no object (a bare number), on which ['ip'] raises.
NotJson == [valid |-> FALSE, fields |-> {}, value |-> [f \in {} |-> None]]

Json(obj) == [valid |-> TRUE, fields |-> DOMAIN obj, value |-> obj]

ParseJson(text) ==
    CASE text = <<"{origin:'1'}">> -> Json([origin |-> Str(<<"1">>)])
      [] text = <<"{ip:null}">>    -> Json([ip |-> None])
      [] text = <<"{ip:''}">>      -> Json([ip |-> Str(<<>>)])
      [] text = <<"{ip:'1'}">>     -> Json([ip |-> Str(<<"1">>)])
      [] OTHER                     -> NotJson

\* response.json()['ip']: the value of the field, or Fail where json() or
\* the subscript raises (JSONDecodeError, TypeError, KeyError).
JsonIp(text) ==
    LET j == ParseJson(text)
    IN  IF j.valid /\ "ip" \in j.fields THEN Ok(j.value["ip"]) ELSE Fail

\* The body of the inner try of get_external_ip after the GET: the value
\* the service yields, or Fail where an exception sends the loop on.
ParseResponse(service, resp) ==
    IF resp.status # "ok" THEN Fail
    ELSE IF IsJsonService(service) THEN JsonIp(resp.text)
    ELSE Ok(Str(Strip(resp.text)))

\* ---------------------------------------------------------- the provider

RecordIds == {"id1", "id2"}

\* A record the provider reports with an empty id field.
NamelessRecord == [id |-> "", content |-> Str(<<"1">>)]

\* The addresses somebody else may publish in the record.
PublishedIps == {Str(<<"1">>), Str(<<"1", "1">>)}

NoRecord == [id |-> "", content |-> None]

\* How the provider can answer the read of get_dns_record.
ReadOutcomes == {"error", "http_error", "bad_json", "success_false", "ok"}

\* Mutant: the record id is looked up once and kept from then on.
GetDnsRecord_CachesId(o, z, rid) ==
    IF o = "ok" /\ z # NoRecord
    THEN [ret |-> z.content,
          record_id |-> IF rid \notin {"None", ""} THEN rid ELSE z.id]
    ELSE [ret |-> None, record_id |-> rid]

\* get_dns_record against the provider's record z: the value returned and
\* the record id the call leaves in self.record_id.
GetDnsRecord(o, z, rid) ==
    IF o = "ok" /\ z # NoRecord
    THEN [ret |-> z.content, record_id |-> z.id]
    ELSE [ret |-> None, record_id |-> rid]

\* How the provider can answer the PUT of update_dns_record.
WriteOutcomes ==
    {"error", "http_error", "bad_json", "success_false", "success_missing",
     "success_true"}

\* Mutant: a 2xx answer without a success field counts as a success.
UpdateResult_MissingIsSuccess(o) ==
    CASE o \in {"success_true", "success_missing"} -> "True"
      [] o = "success_false" -> "False"
      [] OTHER -> "None"

\* The value update_dns_record returns for an answer to its PUT.
UpdateResult(o) ==
    CASE o = "success_true" -> "True"
      [] o \in {"success_false", "success_missing"} -> "False"
      [] OTHER -> "None"

\* Python truthiness of self.record_id and of the result of the write.
HasRecordId(rid) == rid \notin {"None", ""}

\* The PUT of lines 208-213: the record id in its URL and the content of
\* its body.
PutRequest(rid, ip) == [sent |-> TRUE, id |-> rid, content |-> ip]

NoPut == [sent |-> FALSE, id |-> "", content |-> None]

\* Mutant: the None of a failed PUT is taken for a success.
WriteSucceeded_NotFalse(r) == r # "False"

WriteSucceeded(r) == r = "True"

\* Whether the provider may have applied a PUT it answered with o.
MayApply(o) == o \in {"error", "bad_json", "success_missing", "success_true"}

MustApply(o) == o = "success_true"

\* The provider publishes only an address: a non-empty string of digits.
IsAddress(v) == Truthy(v) /\ \A i \in 1..Len(v.s) : v.s[i] \in Digits

\* --------------------------------------------- the transport of the session

\* Retry(total=3): the number of retries of one request.
RetryTotal == 3

StatusForcelist == {429, 500, 502, 503, 504}

AllowedMethods == {"GET", "PUT"}

\* The methods a request of the session can have, and the statuses an
\* attempt can be answered with.
Methods == AllowedMethods \cup {"POST", "DELETE"}

Statuses == {200, 404} \cup StatusForcelist

\* Whether a request of method m answered with st is one the retry strategy
\* covers.
Retryable(m, st) == m \in AllowedMethods /\ st \in StatusForcelist

\* Mutant: the method of the request is not looked at.
Resend_AnyMethod(m, st, sent) == st \in StatusForcelist /\ sent - 1 < RetryTotal

\* Whether the adapter sends the request again after attempt number sent
\* was answered with st: it does while retries are left, and sent - 1 of
\* them are used up.
Resend(m, st, sent) == Retryable(m, st) /\ sent - 1 < RetryTotal

\* ------------------------------------------------------------------ state

VARIABLES
    pc,          \* where run() stands: "query", "parse" (get_external_ip),
                 \* "read", "compare", "write", "sleep"; "exited" once left
    svc,         \* index in IP_CHECK_SERVICES of the service being tried
    response,    \* the response get_external_ip is about to parse
    new_ip,      \* run(): new_ip
    dns_ip,      \* run(): dns_ip
    current_ip,  \* self.current_ip, the cached address
    record_id,   \* self.record_id
    wait,        \* the argument of the time.sleep the loop is in (0: none)
    zone,        \* the record the provider publishes
    tried,       \* history: outcome of each service tried in this iteration
    read_answer, \* history: the provider's answer to the read ("-": no read)
    writes,      \* history: calls of update_dns_record in this iteration
    written,     \* history: the argument of that call
    write_answer,\* history: the provider's answer to the PUT ("-": no PUT)
    result,      \* history: what update_dns_record returned ("-": nothing)
    raised,      \* history: the iteration ended in the handler of line 261
    cmp_ip,      \* history: self.current_ip as line 254 compared it
    seeded,      \* history: line 251 ran in this iteration
    prev,        \* history: the failed write of the previous iteration,
                 \* kept until this iteration has resolved and read
    retry,       \* history: the previous write failed and this iteration
                 \* found the same address and read the same content
    first_ip,    \* history: the first address the resolver ever returned
    read_id,     \* history: the id of the record the read of this iteration
                 \* returned ("-": it returned none)
    put,         \* history: the PUT update_dns_record sent in this iteration
    boot,        \* the main block: "new", "probing", "ready" (constructed),
                 \* "running" (in run()), "failed" (the constructor raised)
    cfg,         \* the environment and config.py as __init__ reads them
    headers,     \* self.headers: the authentication scheme in use
    probes,      \* history: the answers to the calls of the
                 \* token-verification endpoint, in order
    t_phase,     \* the adapter: "idle", "sending" a request, "done" with it
    t_method,    \* the method of the request the adapter is sending
    t_log,       \* history: the status each attempt of it was answered with
    t_outcome,   \* what the caller gets: "response", or "retry_error" when
                 \* the retries are used up ("-": nothing yet)
    settled,     \* assumption: from this iteration on the resolver returns
                 \* settled_ip, the provider works and nobody else writes
    settled_ip   \* the address the resolver returns from then on

startup == <<boot, cfg, headers, probes>>

transport == <<t_phase, t_method, t_log, t_outcome>>

\* What run() neither reads nor writes.
outside == <<startup, transport, settled, settled_ip>>

loop ==
    <<pc, svc, response, new_ip, dns_ip, current_ip, record_id, wait, zone,
      tried, read_answer, writes, written, write_answer, result, raised,
      cmp_ip, seeded, prev, retry, first_ip, read_id, put>>

vars == <<loop, outside>>

history ==
    <<tried, read_answer, writes, written, write_answer, result, raised,
      cmp_ip, seeded, read_id, put>>

NoResponse == [status |-> "none", text |-> <<>>]

NoPrev == [failed |-> FALSE, ip |-> None, dns |-> None]

Zones ==
    {NoRecord, NamelessRecord}
    \cup {[id |-> i, content |-> c] : i \in RecordIds, c \in PublishedIps}

\* The fields and the loop as the constructor leaves them.
LoopInit ==
    /\ pc = "query"
    /\ svc = 1
    /\ response = NoResponse
    /\ new_ip = None
    /\ dns_ip = None
    /\ current_ip = None
    /\ record_id = "None"
    /\ wait = 0
    /\ zone \in Zones
    /\ tried = <<>>
    /\ read_answer = "-"
    /\ writes = 0
    /\ written = None
    /\ write_answer = "-"
    /\ result = "-"
    /\ raised = FALSE
    /\ cmp_ip = None
    /\ seeded = FALSE
    /\ prev = NoPrev
    /\ retry = FALSE
    /\ first_ip = None
    /\ read_id = "-"
    /\ put = NoPut

\* The configuration once run() is entered: the loop reads it only through
\* self.headers.
NoCfg ==
    [token |-> "None", key |-> "None", email |-> "None", zone_id |-> "None",
     record_name |-> "None", skip_connection_test |-> FALSE]

\* The adapter before its first request, and no assumption made.
OutsideInit ==
    /\ t_phase = "idle"
    /\ t_method = "-"
    /\ t_log = <<>>
    /\ t_outcome = "-"
    /\ settled = FALSE
    /\ settled_ip = None

\* The state after a construction that succeeded, at the call of run().
Init ==
    /\ LoopInit
    /\ OutsideInit
    /\ boot = "running"
    /\ cfg = NoCfg
    /\ headers = "token"
    /\ probes = <<>>

\* ------------------------------------------------------------------- run()

\* time.sleep(config.TIMERS['retry_interval']); continue
RetrySleep == [pc |-> "sleep", wait |-> retry_interval]

\* time.sleep(self.check_interval) at the end of the loop body
CheckSleep == [pc |-> "sleep", wait |-> check_interval]

\* Mutant: the first service that fails ends the resolution.
ResolverStep_AbortOnFailure(i, o) ==
    IF o.ok THEN [ret |-> TRUE, ip |-> o.ip, svc |-> 0]
    ELSE [ret |-> TRUE, ip |-> None, svc |-> 0]

\* Mutant: the loop goes through every service, whatever an earlier one gave.
ResolverStep_QueryAll(i, o) ==
    IF i < Len(IP_CHECK_SERVICES) THEN [ret |-> FALSE, ip |-> None, svc |-> i + 1]
    ELSE [ret |-> TRUE, ip |-> IF o.ok THEN o.ip ELSE None, svc |-> 0]

\* The for loop of get_external_ip after service i gave outcome o: return
\* the address, go on to the next service, or return None after the last.
ResolverStep(i, o) ==
    IF o.ok THEN [ret |-> TRUE, ip |-> o.ip, svc |-> 0]
    ELSE IF i < Len(IP_CHECK_SERVICES) THEN [ret |-> FALSE, ip |-> None, svc |-> i + 1]
    ELSE [ret |-> TRUE, ip |-> None, svc |-> 0]

\* Mutant: the result of the resolver is not checked.
AfterResolve_NoCheck(ip) == [pc |-> "read", wait |-> 0]

\* if not new_ip: sleep the retry interval and continue
AfterResolve(ip) == IF Truthy(ip) THEN [pc |-> "read", wait |-> 0] ELSE RetrySleep

\* Mutant: the result of the read is not checked.
AfterRead_NoCheck(ip) == [pc |-> "compare", wait |-> 0]

\* if not dns_ip: sleep the retry interval and continue
AfterRead(ip) == IF Truthy(ip) THEN [pc |-> "compare", wait |-> 0] ELSE RetrySleep

\* Mutant: the cache is never seeded.
Seed_Never(cur, ip) == cur

\* if self.current_ip is None: self.current_ip = new_ip
Seed(cur, ip) == IF cur = None THEN ip ELSE cur

\* Mutant: the published content is not compared.
UpdateNeeded_CacheOnly(ip, cur, dns) == ip # cur

\* Mutant: only the published content is compared.
UpdateNeeded_DnsOnly(ip, cur, dns) == ip # dns

\* if new_ip != self.current_ip or new_ip != dns_ip
UpdateNeeded(ip, cur, dns) == ip # cur \/ ip # dns

AfterCompare(ip, cur, dns) ==
    IF UpdateNeeded(ip, cur, dns) THEN [pc |-> "write", wait |-> 0] ELSE CheckSleep

\* Mutant: the cache is set whatever the write returned.
CacheAfterWrite_Always(cur, ip, r) == ip

\* if self.update_dns_record(new_ip): self.current_ip = new_ip
CacheAfterWrite(cur, ip, r) == IF WriteSucceeded(r) THEN ip ELSE cur

\* Mutant: a write that failed is followed by the retry sleep.
AfterWrite_RetryOnFailure(r) == IF r = "True" THEN CheckSleep ELSE RetrySleep

\* What follows the write in run(): the sleep at the end of the loop body.
AfterWrite(r) == CheckSleep

\* Mutant: the handler lets the exception end run().
ExceptHandler_Reraise == [pc |-> "exited", wait |-> 0]

\* except Exception: log, sleep the retry interval and continue
ExceptHandler == RetrySleep

\* The GET of line 137 to service svc.
Query ==
    /\ boot = "running"
    /\ UNCHANGED outside
    /\ pc = "query"
    /\ \E r \in Answers(svc) : response' = r
    /\ pc' = "parse"
    /\ UNCHANGED <<svc, new_ip, dns_ip, current_ip, record_id, wait, zone,
                   history, prev, retry, first_ip>>

\* Lines 138-153 and 237-240: the response is parsed; get_external_ip
\* returns or tries the next service; run() goes on or sleeps.
Parse ==
    /\ boot = "running"
    /\ UNCHANGED outside
    /\ pc = "parse"
    /\ LET o == ParseResponse(IP_CHECK_SERVICES[svc], response)
           r == ResolverStep(svc, o)
       IN  /\ tried' = Append(tried, IF o.ok THEN "ok" ELSE "fail")
           /\ svc' = r.svc
           /\ response' = IF o.ok THEN response ELSE NoResponse
           /\ IF r.ret
              THEN /\ new_ip' = r.ip
                   /\ pc' = AfterResolve(r.ip).pc
                   /\ wait' = AfterResolve(r.ip).wait
                   /\ first_ip' = IF first_ip = None /\ current_ip = None /\ Truthy(r.ip)
                                  THEN r.ip ELSE first_ip
                   /\ prev' = IF prev.failed /\ r.ip = prev.ip THEN prev ELSE NoPrev
              ELSE /\ pc' = "query"
                   /\ UNCHANGED <<new_ip, wait, first_ip, prev>>
    /\ UNCHANGED <<dns_ip, current_ip, record_id, zone, read_answer, writes,
                   written, write_answer, result, raised, cmp_ip, seeded, retry,
                   read_id, put>>

\* Lines 243-247: get_dns_record and the check of its result.
Read ==
    /\ boot = "running"
    /\ UNCHANGED outside
    /\ pc = "read"
    /\ \E o \in ReadOutcomes :
         LET g == GetDnsRecord(o, zone, record_id)
         IN  /\ read_answer' = o
             /\ dns_ip' = g.ret
             /\ record_id' = g.record_id
             /\ read_id' = IF g.ret # None THEN zone.id ELSE "-"
             /\ pc' = AfterRead(g.ret).pc
             /\ wait' = AfterRead(g.ret).wait
             /\ retry' = (prev.failed /\ g.ret = prev.dns)
    /\ prev' = NoPrev
    /\ response' = NoResponse
    /\ UNCHANGED <<svc, new_ip, current_ip, zone, tried, writes, written,
                   write_answer, result, raised, cmp_ip, seeded, first_ip, put>>

\* Lines 250-254 and 258-259: first-run seeding and the comparison.
Compare ==
    /\ boot = "running"
    /\ UNCHANGED outside
    /\ pc = "compare"
    /\ current_ip' = Seed(current_ip, new_ip)
    /\ seeded' = (current_ip = None)
    /\ cmp_ip' = current_ip'
    /\ pc' = AfterCompare(new_ip, current_ip', dns_ip).pc
    /\ wait' = AfterCompare(new_ip, current_ip', dns_ip).wait
    /\ UNCHANGED <<svc, response, new_ip, dns_ip, record_id, zone, tried,
                   read_answer, writes, written, write_answer, result, raised,
                   prev, retry, first_ip, read_id, put>>

\* Lines 256-257 with update_dns_record: without a record id no PUT is
\* sent; otherwise the provider answers the PUT and may apply it.
Write ==
    /\ boot = "running"
    /\ UNCHANGED outside
    /\ pc = "write"
    /\ writes' = writes + 1
    /\ written' = new_ip
    /\ IF ~HasRecordId(record_id)
       THEN /\ result' = "False"
            /\ write_answer' = "-"
            /\ put' = NoPut
            /\ zone' = zone
       ELSE \E o \in WriteOutcomes, applied \in BOOLEAN :
              /\ MustApply(o) => applied
              /\ applied => /\ MayApply(o)
                            /\ zone # NoRecord
                            /\ zone.id = record_id
                            /\ IsAddress(new_ip)
              /\ write_answer' = o
              /\ put' = PutRequest(record_id, new_ip)
              /\ result' = UpdateResult(o)
              /\ zone' = IF applied THEN [zone EXCEPT !.content = new_ip] ELSE zone
    /\ current_ip' = CacheAfterWrite(current_ip, new_ip, result')
    /\ pc' = AfterWrite(result').pc
    /\ wait' = AfterWrite(result').wait
    /\ UNCHANGED <<svc, response, new_ip, dns_ip, record_id, tried,
                   read_answer, raised, cmp_ip, seeded, prev, retry, first_ip,
                   read_id>>

\* Lines 261-265: a call of the iteration raises past its own handlers and
\* the handler of the loop takes over.
UnexpectedError ==
    /\ boot = "running"
    /\ UNCHANGED outside
    /\ pc \in {"query", "read", "write"}
    /\ raised' = TRUE
    /\ writes' = IF pc = "write" THEN writes + 1 ELSE writes
    /\ written' = IF pc = "write" THEN new_ip ELSE written
    /\ response' = NoResponse
    /\ pc' = ExceptHandler.pc
    /\ wait' = ExceptHandler.wait
    /\ prev' = NoPrev
    /\ UNCHANGED <<svc, new_ip, dns_ip, current_ip, record_id, zone, tried,
                   read_answer, write_answer, result, cmp_ip, seeded, retry,
                   first_ip, read_id, put>>

\* time.sleep returns and the while loop starts the next iteration.  The
\* locals new_ip and dns_ip are assigned before they are read again, so
\* their old values are dropped here together with the history.
Wake ==
    /\ boot = "running"
    /\ UNCHANGED outside
    /\ pc = "sleep"
    /\ pc' = "query"
    /\ svc' = 1
    /\ wait' = 0
    /\ new_ip' = None
    /\ dns_ip' = None
    /\ response' = NoResponse
    /\ tried' = <<>>
    /\ read_answer' = "-"
    /\ writes' = 0
    /\ written' = None
    /\ write_answer' = "-"
    /\ result' = "-"
    /\ raised' = FALSE
    /\ cmp_ip' = None
    /\ seeded' = FALSE
    /\ read_id' = "-"
    /\ put' = NoPut
    /\ prev' = IF result \in {"False", "None"}
               THEN [failed |-> TRUE, ip |-> new_ip, dns |-> dns_ip]
               ELSE NoPrev
    /\ retry' = FALSE
    /\ first_ip' = IF current_ip = None THEN first_ip ELSE None
    /\ UNCHANGED <<current_ip, record_id, zone>>

\* Somebody else changes, deletes or recreates the record at the provider.
\* The program sees the record only through its read and its PUT, so a
\* change made at any moment is placed just before the next of these calls.
OutOfBand ==
    /\ UNCHANGED outside
    /\ pc \in {"read", "write"}
    /\ \E z \in Zones \ {zone} : zone' = z
    /\ UNCHANGED <<pc, svc, response, new_ip, dns_ip, current_ip, record_id,
                   wait, history, prev, retry, first_ip>>

Step == Query \/ Parse \/ Read \/ Compare \/ Write \/ UnexpectedError \/ Wake

Next == Step \/ OutOfBand

Spec == Init /\ [][Next]_vars

\* run() is one sequential thread: whenever it can take a step it does.
FairSpec == Spec /\ WF_vars(Step)

\* ------------------------------------------------- __init__ and __main__

\* What os.getenv gives for a variable: None (unset), '' or a value.
EnvValues == {"None", "", "set"}

Configs ==
    [token : EnvValues, key : EnvValues, email : EnvValues,
     zone_id : EnvValues, record_name : EnvValues,
     skip_connection_test : BOOLEAN]

\* Python truthiness of what os.getenv gave.
Configured(v) == v \notin {"None", ""}

\* Mutant: the key and the email are preferred to the token.
SelectAuth_KeyFirst(c) ==
    IF Configured(c.key) /\ Configured(c.email) THEN "key_email"
    ELSE IF Configured(c.token) THEN "token"
    ELSE "error"

\* Lines 37-51: the authentication scheme, "error" for the ValueError.
SelectAuth(c) ==
    IF Configured(c.token) THEN "token"
    ELSE IF Configured(c.key) /\ Configured(c.email) THEN "key_email"
    ELSE "error"

\* Line 53: the zone and the record name are both there.
HasTarget(c) == Configured(c.zone_id) /\ Configured(c.record_name)

\* Where the constructor stands before the connection test of line 101.
AfterConfig(c) ==
    IF SelectAuth(c) = "error" \/ ~HasTarget(c) THEN "failed"
    ELSE IF c.skip_connection_test THEN "ready"
    ELSE "probing"

\* How the GET of the connection test can end.
ProbeOutcomes ==
    {"ok", "connect_timeout", "read_timeout", "ssl_error", "connection_error",
     "http_error", "other"}

\* Mutant: a failed connection test is logged and not raised again.
AfterProbe_Swallow(o) == "ready"

\* Lines 102-126: every except clause logs and raises again.
AfterProbe(o) == IF o = "ok" THEN "ready" ELSE "failed"

StartInit ==
    /\ LoopInit
    /\ OutsideInit
    /\ boot = "new"
    /\ cfg \in Configs
    /\ headers = "none"
    /\ probes = <<>>

\* Lines 28-99: the configuration is read and checked.
Configure ==
    /\ boot = "new"
    /\ headers' = IF SelectAuth(cfg) = "error" THEN "none" ELSE SelectAuth(cfg)
    /\ boot' = AfterConfig(cfg)
    /\ UNCHANGED <<loop, cfg, probes, transport, settled, settled_ip>>

\* Lines 101-126: the connection test.
Probe ==
    /\ boot = "probing"
    /\ \E o \in ProbeOutcomes :
         /\ probes' = Append(probes, o)
         /\ boot' = AfterProbe(o)
    /\ UNCHANGED <<loop, cfg, headers, transport, settled, settled_ip>>

\* Line 300: updater.run().
EnterRun ==
    /\ boot = "ready"
    /\ boot' = "running"
    /\ cfg' = NoCfg
    /\ UNCHANGED <<loop, headers, probes, transport, settled, settled_ip>>

StartNext == Configure \/ Probe \/ EnterRun \/ Next

\* The main block of lines 299-300 from any configuration.
StartSpec == StartInit /\ [][StartNext]_vars

\* ------------------------------------------- one request through the adapter

\* session.get, session.put or any other request of the session.
Send ==
    /\ t_phase = "idle"
    /\ \E m \in Methods : t_method' = m
    /\ t_phase' = "sending"
    /\ t_log' = <<>>
    /\ t_outcome' = "-"
    /\ UNCHANGED <<loop, startup, settled, settled_ip>>

\* One attempt on the wire and its answer: the adapter sends the request
\* again, hands the response to the caller, or raises when a retryable
\* answer finds no retry left.
Attempt ==
    /\ t_phase = "sending"
    /\ \E st \in Statuses :
         /\ t_log' = Append(t_log, st)
         /\ IF Resend(t_method, st, Len(t_log'))
            THEN t_phase' = "sending" /\ t_outcome' = "-"
            ELSE /\ t_phase' = "done"
                 /\ t_outcome' = IF Retryable(t_method, st)
                                 THEN "retry_error" ELSE "response"
    /\ UNCHANGED <<loop, startup, t_method, settled, settled_ip>>

\* The caller has its response or its exception.
Return ==
    /\ t_phase = "done"
    /\ t_phase' = "idle"
    /\ t_method' = "-"
    /\ t_log' = <<>>
    /\ t_outcome' = "-"
    /\ UNCHANGED <<loop, startup, settled, settled_ip>>

TransportNext == Send \/ Attempt \/ Return

\* The requests of the session, one after the other.
TransportSpec == Init /\ [][TransportNext]_vars

\* ------------------------------------------------------ a settled environment

\* At the start of an iteration the environment settles: from now on the
\* resolver returns x.
Settle ==
    /\ boot = "running"
    /\ ~settled
    /\ pc = "query" /\ svc = 1 /\ tried = <<>>
    /\ \E x \in PublishedIps : settled_ip' = x
    /\ settled' = TRUE
    /\ UNCHANGED <<loop, startup, transport>>

\* What a step of run() is like once the environment has settled: the
\* resolver returns settled_ip, the read returns a content, the write
\* succeeds and the provider publishes its content, nothing raises and
\* nobody else touches the record.
Settled ==
    /\ pc = "parse" => (pc' = "query" \/ new_ip' = settled_ip)
    /\ pc = "read" => Truthy(dns_ip')
    /\ pc = "write" => (result' = "True" /\ zone'.content = new_ip)
    /\ pc # "write" => zone' = zone
    /\ ~raised'

\* The steps of run(), kept to the assumption once it is made; then nothing
\* raises and nobody else writes.
SettledNext ==
    \/ Settle
    \/ Query /\ (settled => Settled)
    \/ Parse /\ (settled => Settled)
    \/ Read /\ (settled => Settled)
    \/ Compare /\ (settled => Settled)
    \/ Write /\ (settled => Settled)
    \/ Wake /\ (settled => Settled)
    \/ UnexpectedError /\ ~settled
    \/ OutOfBand /\ ~settled

\* run() in an environment that may settle.
SettledSpec == Init /\ [][SettledNext]_vars

\* ----------------------------------------------------------------- claims

\* C1: an iteration in which the resolver returned an address and the read
\* returned a content issues a write exactly when the address differs from
\* the cache (as it stands after seeding) or from the content read; every
\* other iteration issues none; no iteration issues more than one.
C1_WriteIffNeeded ==
    /\ writes <= 1
    /\ (pc = "sleep" /\ Truthy(new_ip) /\ Truthy(dns_ip)) =>
          (writes = 1 <=> (new_ip # cmp_ip \/ new_ip # dns_ip))
    /\ ~(Truthy(new_ip) /\ Truthy(dns_ip)) => writes = 0

\* The cache agrees with the address found, the record was changed by
\* somebody else, and the iteration has written.
C1_Witness ==
    /\ pc = "sleep" /\ ~seeded /\ ~raised
    /\ Truthy(dns_ip) /\ new_ip = cmp_ip /\ new_ip # dns_ip
    /\ writes = 1 /\ written = new_ip

\* C2: once seeded, the cache changes only in the step of a write the
\* provider answered 2xx with success=true, and after every such write it
\* is the address found in that iteration.
C2_CacheOnlyOnConfirmedWrite ==
    [][ /\ (current_ip # None /\ current_ip' # current_ip) =>
              (pc = "write" /\ write_answer' = "success_true")
        /\ (pc = "write" /\ write_answer' = "success_true") =>
              current_ip' = new_ip ]_vars

\* Cache X, found Y, published X, the write confirmed: the cache is Y.
C2_Witness ==
    /\ pc = "sleep" /\ ~seeded
    /\ cmp_ip # new_ip /\ cmp_ip = dns_ip
    /\ write_answer = "success_true" /\ current_ip = new_ip

\* C3: a write that is not confirmed leaves the cache as it was and sends
\* the loop to its sleep; when the next iteration finds the same address
\* and reads the same content, it calls update_dns_record once more with
\* that address.
C3_FailedWriteRetried ==
    [][ /\ (pc = "write" /\ pc' # pc /\ write_answer' # "success_true") =>
              (current_ip' = current_ip /\ pc' = "sleep")
        /\ (retry /\ pc = "compare" /\ pc' # pc) => pc' = "write"
        /\ (retry /\ pc = "write" /\ pc' # pc) =>
              (writes' = 1 /\ written' = new_ip) ]_vars

\* The iteration after a failed write has written the same address again.
C3_Witness ==
    /\ retry /\ pc = "sleep" /\ ~raised
    /\ writes = 1 /\ written = new_ip /\ write_answer # "-"

\* C4: after a transport error of the resolver (all services failed), of
\* the read or of the write, the loop sleeps the retry interval.
C4_TransportErrorRetryWait ==
    (/\ pc = "sleep"
     /\ \/ (Len(tried) = Len(IP_CHECK_SERVICES) /\ tried[Len(tried)] = "fail")
        \/ read_answer = "error"
        \/ write_answer = "error")
    => wait = retry_interval

\* C5: when the resolver returns no address the iteration reads nothing
\* and writes nothing; when the read returns no content it writes nothing;
\* in both cases the cache is not touched (nor seeded), the loop sleeps the
\* retry interval and then starts again at the first service.
C5_NotFoundOrUnreadable ==
    [][ /\ (pc = "parse" /\ pc' \notin {"parse", "query"} /\ ~Truthy(new_ip')) =>
              /\ pc' = "sleep" /\ wait' = retry_interval
              /\ read_answer' = "-" /\ writes' = 0
              /\ current_ip' = current_ip /\ ~seeded'
        /\ (pc = "read" /\ read_answer' # "-" /\ ~Truthy(dns_ip')) =>
              /\ pc' = "sleep" /\ wait' = retry_interval
              /\ writes' = 0
              /\ current_ip' = current_ip /\ ~seeded'
        /\ (pc = "sleep" /\ pc' # pc) =>
              /\ pc' = "query" /\ svc' = 1
              /\ current_ip' = current_ip ]_vars

\* The first read of the process was refused by the provider: the loop
\* sleeps the retry interval with the cache still unset.
C5_Witness ==
    /\ pc = "sleep" /\ wait = retry_interval
    /\ Truthy(new_ip) /\ read_answer = "success_false"
    /\ current_ip = None /\ writes = 0

\* C6: the first comparison made with the cache unset seeds the cache with
\* the address found, and that iteration writes exactly when the content
\* read differs from the address; seeding alone causes no write.
C6_SeedingWithoutWrite ==
    [][ /\ (pc = "compare" /\ current_ip = None /\ pc' # pc) =>
              /\ seeded' /\ current_ip' = new_ip
              /\ (pc' = "write") <=> (dns_ip # new_ip)
              /\ (pc' # "write") => (pc' = "sleep" /\ writes' = 0)
        /\ (pc = "write" /\ seeded /\ pc' # pc) => writes' = 1
        /\ (seeded' /\ ~seeded) => (pc = "compare" /\ current_ip = None) ]_vars

\* The seeding iteration found the published address and sleeps without
\* having written.
C6_Witness ==
    /\ pc = "sleep" /\ seeded
    /\ current_ip = new_ip /\ dns_ip = new_ip
    /\ writes = 0 /\ wait = check_interval

\* C7 as claimed: the cache is first set to the first address the resolver
\* returned in the life of the process.
C7_SeededFromFirstResolution == seeded => cmp_ip = first_ip

\* C7 as amended: the cache starts unset and is first set in the first
\* iteration in which the resolver returns an address and the read of the
\* same iteration returns a content, to the address of that iteration.
C7_SeededFromFirstFullIteration ==
    /\ current_ip = None
    /\ [][ /\ (pc = "compare" /\ pc' # pc) => current_ip' # None
           /\ (current_ip = None /\ current_ip' # None) =>
                 /\ pc = "compare"
                 /\ Truthy(new_ip) /\ Truthy(dns_ip)
                 /\ current_ip' = new_ip ]_vars

\* An earlier iteration resolved another address and could not read the
\* record; the cache is seeded with the address of this iteration.
C7_Witness ==
    /\ seeded /\ Truthy(first_ip) /\ first_ip # cmp_ip
    /\ cmp_ip = new_ip /\ Truthy(dns_ip)

C9_FirstSuccessWins ==
    [][ (pc = "parse" /\ pc' # pc) =>
          LET k == svc
              o == ParseResponse(IP_CHECK_SERVICES[k], response)
          IN  /\ Len(tried) = k - 1
              /\ \A i \in 1..Len(tried) : tried[i] = "fail"
              /\ o.ok => /\ pc' \in {"read", "sleep"}
                         /\ new_ip' = o.ip
                         /\ ~raised'
              /\ (~o.ok /\ k < Len(IP_CHECK_SERVICES)) =>
                    (pc' = "query" /\ svc' = k + 1)
              /\ (~o.ok /\ k = Len(IP_CHECK_SERVICES)) =>
                    (pc' = "sleep" /\ new_ip' = None /\ ~raised') ]_vars

\* Every service but the last failed and the last one gave the address.
C9_Witness ==
    /\ pc = "read"
    /\ tried = <<"fail", "fail", "fail", "ok">>
    /\ Truthy(new_ip)

\* C10: of the shipped services exactly the first is a JSON service; the
\* resolver returns for it the value of the field ip of the body, and for
\* the others the body without its leading and trailing whitespace.
C10_ParsedByFormat ==
    /\ {i \in 1..Len(IP_CHECK_SERVICES) : IsJsonService(IP_CHECK_SERVICES[i])} = {1}
    /\ (pc # "parse" /\ response # NoResponse) =>
          LET k == Len(tried)
              b == response.text
          IN  /\ response.status = "ok"
              /\ IF k = 1
                 THEN /\ ParseJson(b).valid
                      /\ "ip" \in ParseJson(b).fields
                      /\ new_ip = ParseJson(b).value["ip"]
                 ELSE /\ new_ip.t = "str"
                      /\ \E i, j \in 0..Len(b) :
                           /\ i + j <= Len(b)
                           /\ new_ip.s = SubSeq(b, i + 1, Len(b) - j)
                           /\ \A n \in 1..i : b[n] \in Whitespace
                           /\ \A n \in (Len(b) - j + 1)..Len(b) : b[n] \in Whitespace
                           /\ new_ip.s # <<>> =>
                                /\ new_ip.s[1] \notin Whitespace
                                /\ new_ip.s[Len(new_ip.s)] \notin Whitespace

\* A plain-text service answered an address between whitespace.
C10_Witness ==
    /\ pc = "read" /\ Len(tried) = 2
    /\ response.text = <<" ", "1">>
    /\ new_ip = Str(<<"1">>)

\* Nothing of the loop has happened: no service, read or write was called.
LoopUntouched ==
    /\ pc = "query" /\ svc = 1 /\ response = NoResponse /\ tried = <<>>
    /\ read_answer = "-" /\ writes = 0 /\ write_answer = "-"
    /\ current_ip = None /\ wait = 0

\* C11: for every configuration the constructor uses the token scheme when
\* a token is there, else the key and email scheme when both are there,
\* else fails; it fails too without zone id or record name; the scheme is
\* chosen once; and after a failure run() is never entered: no service,
\* read or write is ever called.
C11_CredentialSelection ==
    /\ [](boot # "running" => LoopUntouched)
    /\ [][ /\ (boot = "new" /\ boot' # boot) =>
                LET token == cfg.token = "set"
                    pair  == cfg.key = "set" /\ cfg.email = "set"
                    target == cfg.zone_id = "set" /\ cfg.record_name = "set"
                IN  /\ token => headers' = "token"
                    /\ (~token /\ pair) => headers' = "key_email"
                    /\ (~token /\ ~pair) => headers' = "none"
                    /\ (boot' = "failed") <=> ((~token /\ ~pair) \/ ~target)
           /\ headers' # headers => boot = "new"
           /\ boot = "failed" => boot' = "failed" ]_vars

\* A token is configured next to a key and an email, and the constructor
\* has chosen the token scheme.
C11_Witness ==
    /\ boot \in {"probing", "ready"}
    /\ cfg.token = "set" /\ cfg.key = "set" /\ cfg.email = "set"
    /\ headers = "token"

\* C12: update_dns_record returns True exactly when the PUT was answered
\* 2xx with success true in the body; for every other answer (transport
\* exception, non-2xx, unparsable body, success false or missing) it
\* returns False or None, raises nothing, and the loop goes on to its sleep.
C12_SuccessNeedsBoth ==
    /\ (result = "True") <=> (write_answer = "success_true")
    /\ write_answer # "-" =>
          /\ result \in {"True", "False", "None"}
          /\ ~raised
          /\ pc = "sleep"
    /\ write_answer \in {"error", "http_error", "bad_json"} => result = "None"
    /\ write_answer \in {"success_false", "success_missing"} => result = "False"

\* The provider answered 2xx without a success field.
C12_Witness ==
    /\ pc = "sleep" /\ write_answer = "success_missing"
    /\ result = "False" /\ ~raised

\* C13: the connection test is called once, before the loop, unless the
\* skip flag is set, and then not at all; when it fails in any way the
\* constructor fails and run() is never entered; without it the constructor
\* goes straight on to the loop.
C13_StartupProbe ==
    /\ Len(probes) <= 1
    /\ boot = "new" => probes = <<>>
    /\ boot = "probing" => (probes = <<>> /\ ~cfg.skip_connection_test)
    /\ boot = "ready" =>
          probes = IF cfg.skip_connection_test THEN <<>> ELSE <<"ok">>
    /\ boot = "running" => probes \in {<<>>, <<"ok">>}
    /\ (probes # <<>> /\ probes[1] # "ok") => boot = "failed"
    /\ boot # "running" => LoopUntouched

\* The connection test ended in an SSL error and the constructor failed.
C13_Witness ==
    /\ boot = "failed" /\ probes = <<"ssl_error">>
    /\ ~cfg.skip_connection_test

\* C15: whenever get_external_ip hands the loop a value the loop treats as
\* NotFound (None or empty), every service of IP_CHECK_SERVICES has been
\* queried in that resolution.
C15_EveryEndpointQueried ==
    (pc = "sleep" /\ ~raised /\ ~Truthy(new_ip))
    => Len(tried) = Len(IP_CHECK_SERVICES)

\* C16: a call of update_dns_record follows a read of the same iteration
\* that returned a record; when that record has an id, the call sends one
\* PUT, to that id and with the address resolved in this iteration as its
\* content; when it has none, the call sends no PUT and returns False.  No
\* PUT is sent any other way.
C16_WriteUsesFreshId ==
    /\ result # "-" =>
          /\ writes = 1 /\ written = new_ip /\ read_id # "-"
          /\ IF HasRecordId(read_id)
             THEN put = PutRequest(read_id, new_ip)
             ELSE put = NoPut /\ result = "False"
    /\ put.sent <=> write_answer # "-"
    /\ put.sent => (result # "-" /\ HasRecordId(put.id) /\ Truthy(put.content))

\* An iteration that retries a failed write has sent its PUT to the id its
\* own read returned.
C16_Witness ==
    /\ pc = "sleep" /\ put.sent /\ put.id = "id2" /\ retry
    /\ put = PutRequest(read_id, new_ip)

\* The calls of the provider and of the services made so far in the
\* iteration that did not raise.
Calls == Len(tried) + (IF read_answer # "-" THEN 1 ELSE 0) + writes

\* C17: within an iteration the services are queried one at a time in list
\* order and none after one that succeeded; the read is made only after the
\* resolver returned an address, the write only after the read returned a
\* content; the sleep comes after all of them, no call is made during it,
\* and the calls of the next iteration start only when it has ended.
C17_StrictSequence ==
    /\ [](/\ Len(tried) <= Len(IP_CHECK_SERVICES)
          /\ \A i \in 1..(Len(tried) - 1) : tried[i] = "fail"
          /\ writes <= 1
          /\ pc \in {"query", "parse"} =>
                /\ svc = Len(tried) + 1
                /\ \A i \in 1..Len(tried) : tried[i] = "fail"
                /\ read_answer = "-" /\ writes = 0
          /\ (pc \in {"read", "compare", "write"} \/ read_answer # "-" \/ writes > 0) =>
                /\ tried # <<>> /\ tried[Len(tried)] = "ok"
                /\ Truthy(new_ip)
          /\ pc = "read" => (read_answer = "-" /\ writes = 0)
          /\ (pc \in {"compare", "write"} \/ writes > 0) =>
                (read_answer = "ok" /\ Truthy(dns_ip))
          /\ pc \in {"compare", "write"} => writes = 0
          /\ (wait # 0) <=> (pc = "sleep"))
    /\ [][ /\ pc = "sleep" =>
                \/ UNCHANGED <<pc, wait, tried, read_answer, writes>>
                \/ /\ pc' = "query" /\ svc' = 1 /\ wait' = 0
                   /\ tried' = <<>> /\ read_answer' = "-" /\ writes' = 0
           /\ pc # "sleep" =>
                /\ Len(tried') >= Len(tried)
                /\ SubSeq(tried', 1, Len(tried)) = tried
                /\ read_answer # "-" => read_answer' = read_answer
                /\ writes' >= writes
                /\ Calls' <= Calls + 1 ]_vars

\* The second service answered after the first failed, the read returned
\* the published content and the write was sent before the sleep.
C17_Witness ==
    /\ pc = "sleep" /\ tried = <<"fail", "ok">>
    /\ read_answer = "ok" /\ writes = 1 /\ put.sent
    /\ wait = check_interval

Converged ==
    /\ zone # NoRecord
    /\ zone.content = settled_ip
    /\ current_ip = settled_ip

\* C19: once the environment has settled on an address, the iteration in
\* which it settled ends with the record publishing that address and the
\* cache holding it; from a state where both hold no step issues a write
\* and both go on holding.
C19_Convergence ==
    /\ []((settled /\ pc = "sleep") => Converged)
    /\ [][(settled /\ Converged) => (Converged' /\ writes' <= writes)]_vars

\* The first settled iteration wrote the address and holds it in the cache.
C19_Witness ==
    /\ settled /\ pc = "sleep" /\ Converged
    /\ writes = 1 /\ result = "True" /\ put.content = settled_ip /\ ~seeded

====
